---- MODULE Spec2Model ----
(***************************************************************************)
(* Gravity simulator (dshak1/gravity-simulator-updated).                   *)
(*                                                                         *)
(* The model covers the 3D grid simulator (class Object, the frame loop   *)
(* of main, keyCallback, mouseButtonCallback) and the template physics    *)
(* engine of modern_physics_engine.h.                                      *)
(*                                                                         *)
(* Numbers.  The program computes in float/double; the model computes on  *)
(* integer grids, with C++-style truncation standing for the rounding:    *)
(*   position, radius : half world units (PosScale = 2; one arrow-key     *)
(*                      step of 0.5 is one grid step)                      *)
(*   velocity, acceleration : whole world units                            *)
(*   mass             : units of 10^18 kg                                  *)
(*   simulationSpeed  : halves (SpeedScale = 2; 0.5x is 1, 10x is 20)      *)
(*   deltaTime        : milliseconds                                       *)
(*   collision factor : fifths (-0.2 is -1, 1.0 is 5)                      *)
(* Comparisons (distance > 0, radius sum > distance) are exact on the     *)
(* grid.                                                                   *)
(***************************************************************************)
EXTENDS Integers, Sequences, FiniteSets, TLC

VARIABLES
    objs,             \* std::vector<Object> objs
    pause,            \* bool pause
    simulationSpeed,  \* float simulationSpeed, in halves
    frameCount,       \* static int frameCount of Object::UpdateTrail
    frames,           \* number of frames run so far
    keyEvents,        \* number of key callbacks delivered so far
    tick,             \* history: what the last frame's physics loop read
    trailCalls,       \* history: per body, its UpdateTrail calls so far
    sampled,          \* history: per body, every position sampled so far
    m_objects,        \* PhysicsEngine::m_objects
    m_timeScale,      \* PhysicsEngine::m_timeScale
    m_paused,         \* PhysicsEngine::m_paused
    m_updateCount,    \* PhysicsEngine::m_updateCount
    probe,            \* two objects and the factor CheckCollision returned
    gridVertices,     \* main's gridVertices, as last returned
    gridLog,          \* history: arguments and result of every grid call
    errors,           \* what has been reported as an error (exception, cerr)
    pc,               \* 0 between frames (at glfwPollEvents), else the index
                      \* of the body the physics loop is about to process
    orbit,            \* the two bodies of main on the fine grid, and the
                      \* number of ticks they have run
    cameraPos,        \* glm::vec3 cameraPos, its y component
    gl                \* the RAII wrappers and the OpenGL ids behind them

simVars == <<objs, pause, simulationSpeed, frameCount, frames, keyEvents,
             tick, trailCalls, sampled>>

engineVars == <<m_objects, m_timeScale, m_paused, m_updateCount>>

gridVars == <<gridVertices, gridLog>>

sideVars == <<orbit, cameraPos, gl>>

vars == <<objs, pause, simulationSpeed, frameCount, frames, keyEvents,
          tick, trailCalls, sampled, engineVars, probe, gridVars, errors, pc, sideVars>>

(***************************************************************************)
(* Bounds of the model.                                                    *)
(***************************************************************************)
MaxFrames == 2
MaxRunFrames == 156
MaxBodies == 4
MaxKeyEvents == 1
MaxDist == 26000
MaxVel == 10000000
MaxOrbitTicks == 1000
MaxFineDist == 4600
MaxWrappers == 3
MaxGlIds == 3

(***************************************************************************)
(* Program constants, on the model's grids.                                *)
(***************************************************************************)
PosScale == 2
SpeedScale == 2
FactorScale == 5
\* 4 * G * 10^18 / 1000^2 with G = 6.6743e-11: acceleration in world units
\* from a mass in 10^18 kg at a squared distance in squared half units
\* (distance *= 1000 converts world units to metres).
GScaled == 267
\* 3 * 10^18 * PosScale^3 / (4 * 3.14159265359 * 100000^3)
RadiusScaled == 1910
AccelDivisor == 96
PosDivisor == 94
TrailEvery == 5
maxTrailLength == 30
initMass == 100
DefaultDensity == 3344
MoonMass == 73477
MoonDensity == 3344
EarthMass == 5972190
EarthDensity == 5515
MoonX == 7688
MoonVz == 228
DampFactor == -1
NoDampFactor == 5
\* the fine grid of the orbit: thousandths of a world unit
MilliScale == 1000

DeltaTimes == {16, 250}
SpeedKeys == {"0", "1", "2", "3", "4"}
ArrowKeys == {"UP", "DOWN", "LEFT", "RIGHT"}
Keys == SpeedKeys \cup ArrowKeys
KeyActions == {"PRESS", "RELEASE", "REPEAT"}
MouseActions == {"PRESS", "RELEASE"}

(***************************************************************************)
(* Arithmetic helpers.                                                     *)
(***************************************************************************)
Abs(a) == IF a >= 0 THEN a ELSE -a

\* C++ division of a signed value by a positive one (toward zero).
TDiv(a, b) == IF a >= 0 THEN a \div b ELSE -((-a) \div b)

\* a * b / c without forming a * b (a >= 0, b >= 0, c > 0, c * b small).
MulDiv(a, b, c) == (a \div c) * b + ((a % c) * b) \div c

RECURSIVE RootSearch(_, _, _, _)
\* the largest r in lo..hi-1 whose k-th power (k = 2 or 3) is at most n
RootSearch(n, k, lo, hi) ==
    IF hi - lo <= 1 THEN lo
    ELSE LET mid == (lo + hi) \div 2
             p == IF k = 2 THEN mid * mid ELSE mid * mid * mid
         IN IF p <= n THEN RootSearch(n, k, mid, hi)
            ELSE RootSearch(n, k, lo, mid)

\* sqrt / pow(x, 0.5) on the grid
ISqrt(n) == RootSearch(n, 2, 0, 46341)
\* pow(x, 1/3) on the grid
ICbrt(n) == RootSearch(n, 3, 0, 1291)

\* The element of a one-element set; {F(v) : v \in {e}} evaluates e once.
Only(S) == CHOOSE v \in S : TRUE

VecAdd(a, b) == <<a[1] + b[1], a[2] + b[2], a[3] + b[3]>>
VecSub(a, b) == <<a[1] - b[1], a[2] - b[2], a[3] - b[3]>>
Norm2(d) == d[1] * d[1] + d[2] * d[2] + d[3] * d[3]
Zero3 == <<0, 0, 0>>

(***************************************************************************)
(* class Object                                                            *)
(***************************************************************************)
\* radius = pow((3 * mass / density) / (4 * pi), 1/3) / 100000
MassRadius(mass, density) == ICbrt(MulDiv(mass, RadiusScaled, density))

\* Object::Object: Initalizing, Launched and hasTrail take their defaults.
NewObject(initPosition, initVelocity, mass, density) ==
    [position |-> initPosition, velocity |-> initVelocity,
     mass |-> mass, density |-> density,
     radius |-> MassRadius(mass, density),
     Initalizing |-> FALSE, Launched |-> FALSE, hasTrail |-> FALSE,
     trailSpheres |-> <<>>]

\* Object::accelerate: velocity[k] += a[k] / 96 * simulationSpeed
accelerate(obj, a, speed) ==
    [obj EXCEPT !.velocity =
        <<@[1] + TDiv(TDiv(a[1], AccelDivisor) * speed, SpeedScale),
          @[2] + TDiv(TDiv(a[2], AccelDivisor) * speed, SpeedScale),
          @[3] + TDiv(TDiv(a[3], AccelDivisor) * speed, SpeedScale)>>]

\* Mutant: the comparison is >= instead of >.
CheckCollisionInclusive(this, other) ==
    LET reach == other.radius + this.radius
    IN IF reach * reach >= Norm2(VecSub(other.position, this.position))
       THEN DampFactor ELSE NoDampFactor

\* Object::CheckCollision: -0.2 when the radii sum exceeds the distance.
CheckCollision(this, other) ==
    LET d == VecSub(other.position, this.position)
        distance == ISqrt(Norm2(d))
    IN IF other.radius + this.radius > distance
       THEN DampFactor ELSE NoDampFactor

\* velocity *= factor, the factor in fifths
ScaleVelocity(v, factor) ==
    LET s(c) == IF c >= 0
                THEN (c \div FactorScale) * factor
                     + TDiv((c % FactorScale) * factor, FactorScale)
                ELSE -((((-c) \div FactorScale) * factor)
                     + TDiv(((-c) % FactorScale) * factor, FactorScale))
    IN <<s(v[1]), s(v[2]), s(v[3])>>

\* Mutant: the newest sphere is erased instead of the oldest.
PushTrailEraseNewest(trail, position) ==
    IF Len(trail) >= maxTrailLength THEN trail ELSE Append(trail, position)

\* The tail of Object::UpdateTrail: push_back, then erase the head when the
\* trail has grown past maxTrailLength.
PushTrail(trail, position) ==
    LET pushed == Append(trail, position)
    IN IF Len(pushed) > maxTrailLength THEN Tail(pushed) ELSE pushed

\* Object::UpdateTrail with the function-static frameCount fc; yields the
\* object, the new value of the counter and whether a sphere was pushed.
UpdateTrail(obj, fc) ==
    IF ~obj.hasTrail THEN [obj |-> obj, fc |-> fc, pushed |-> FALSE]
    ELSE IF (fc + 1) % TrailEvery = 0
         THEN [obj |-> [obj EXCEPT !.trailSpheres = PushTrail(@, obj.position)],
               fc |-> fc + 1, pushed |-> TRUE]
         ELSE [obj |-> obj, fc |-> fc + 1, pushed |-> FALSE]

\* Object::UpdatePos
UpdatePos(obj, speed, fc) ==
    LET step(v) == TDiv(TDiv(PosScale * v, PosDivisor) * speed, SpeedScale)
        moved == [obj EXCEPT
                    !.position = <<@[1] + step(obj.velocity[1]),
                                   @[2] + step(obj.velocity[2]),
                                   @[3] + step(obj.velocity[3])>>,
                    !.radius = MassRadius(obj.mass, obj.density)]
    IN IF moved.hasTrail THEN UpdateTrail(moved, fc)
       ELSE [obj |-> moved, fc |-> fc, pushed |-> FALSE]

(***************************************************************************)
(* The physics loop of main: for (auto& obj : objs) { for (auto& obj2 :    *)
(* objs) {...} ... obj.UpdatePos(); }.  The loop state st carries the      *)
(* bodies as updated so far, the static frameCount, the reads made so far  *)
(* (history), the bodies sampled (history) and whether every distance      *)
(* stayed inside the model's range.                                        *)
(***************************************************************************)
\* Mutant: the guard without its !obj2.Initalizing conjunct.
InteractsIgnoringSource(os, i, j) == j # i /\ ~os[i].Initalizing

\* if (&obj2 != &obj && !obj.Initalizing && !obj2.Initalizing)
Interacts(os, i, j) == j # i /\ ~os[i].Initalizing /\ ~os[j].Initalizing

\* One pass of the inner loop body for obj = objs[i], obj2 = objs[j].
PairStep(st, i, j, paused, speed) ==
    LET obj == st.objs[i]
        obj2 == st.objs[j]
        d == VecSub(obj2.position, obj.position)
    IN IF ~Interacts(st.objs, i, j) THEN st
       ELSE IF \E k \in 1..3 : Abs(d[k]) > MaxDist
       THEN [st EXCEPT !.ok = FALSE]
       ELSE IF Norm2(d) > 0
       THEN LET distance == ISqrt(Norm2(d))
                \* Gforce / obj.mass with Gforce = G * obj.mass * obj2.mass
                \* / (distance * distance): obj.mass cancels
                acc1 == (GScaled * obj2.mass) \div Norm2(d)
                acc == <<TDiv(d[1] * acc1, distance),
                         TDiv(d[2] * acc1, distance),
                         TDiv(d[3] * acc1, distance)>>
                pushedOn == IF ~paused THEN accelerate(obj, acc, speed)
                            ELSE obj
                factor == CheckCollision(pushedOn, obj2)
                damped == [pushedOn EXCEPT
                             !.velocity = ScaleVelocity(@, factor)]
            IN [st EXCEPT
                  !.objs[i] = damped,
                  !.reads = Append(@, [obj |-> i, obj2 |-> j,
                                       pos |-> obj.position,
                                       pos2 |-> obj2.position,
                                       acc |-> acc, factor |-> factor])]
       ELSE st

RECURSIVE InnerLoop(_, _, _, _, _)
InnerLoop(st, i, j, paused, speed) ==
    IF j > Len(st.objs) THEN st
    ELSE Only({InnerLoop(s, i, j + 1, paused, speed) :
                 s \in {PairStep(st, i, j, paused, speed)}})

\* Mutant: the inner loop runs twice for every body, so that every
\* collision check is made twice.
BodyStepCheckingTwice(st, i, paused, speed) ==
    LET s1 == InnerLoop(InnerLoop(st, i, 1, paused, speed), i, 1, paused, speed)
        o1 == s1.objs[i]
        o2 == IF o1.Initalizing
              THEN [o1 EXCEPT !.radius = MassRadius(o1.mass, o1.density)]
              ELSE o1
    IN IF ~paused
       THEN LET u == UpdatePos(o2, speed, s1.fc)
            IN [s1 EXCEPT !.objs[i] = u.obj, !.fc = u.fc,
                          !.pushed = IF u.pushed THEN @ \cup {i} ELSE @]
       ELSE [s1 EXCEPT !.objs[i] = o2]

\* Mutant: explicit Euler, the position advanced by the velocity the body
\* had before the tick accelerated it.
BodyStepExplicitEuler(st, i, paused, speed) ==
    LET s1 == InnerLoop(st, i, 1, paused, speed)
        o1 == s1.objs[i]
        o2 == IF o1.Initalizing
              THEN [o1 EXCEPT !.radius = MassRadius(o1.mass, o1.density)]
              ELSE o1
    IN IF ~paused
       THEN LET u == UpdatePos([o2 EXCEPT !.velocity = st.objs[i].velocity],
                               speed, s1.fc)
            IN [s1 EXCEPT !.objs[i] = [u.obj EXCEPT !.velocity = o2.velocity],
                          !.fc = u.fc,
                          !.pushed = IF u.pushed THEN @ \cup {i} ELSE @]
       ELSE [s1 EXCEPT !.objs[i] = o2]

\* One pass of the outer loop body for obj = objs[i].
BodyStep(st, i, paused, speed) ==
    LET s1 == InnerLoop(st, i, 1, paused, speed)
        o1 == s1.objs[i]
        o2 == IF o1.Initalizing
              THEN [o1 EXCEPT !.radius = MassRadius(o1.mass, o1.density)]
              ELSE o1
    IN IF ~paused
       THEN LET u == UpdatePos(o2, speed, s1.fc)
            IN [s1 EXCEPT !.objs[i] = u.obj, !.fc = u.fc,
                          !.pushed = IF u.pushed THEN @ \cup {i} ELSE @]
       ELSE [s1 EXCEPT !.objs[i] = o2]

RECURSIVE OuterLoop(_, _, _, _)
OuterLoop(st, i, paused, speed) ==
    IF i > Len(st.objs) THEN st
    ELSE Only({OuterLoop(s, i + 1, paused, speed) :
                 s \in {BodyStep(st, i, paused, speed)}})

\* Mutant: the loop leaves the first two bodies in exchanged places.
PhysicsLoopSwapping(os, paused, speed, fc) ==
    LET st == OuterLoop([objs |-> os, fc |-> fc, reads |-> <<>>, pushed |-> {},
                         ok |-> TRUE], 1, paused, speed)
    IN [st EXCEPT !.objs = [@ EXCEPT ![1] = st.objs[2], ![2] = st.objs[1]]]

\* for(auto& obj : objs) { ... } of the frame, from the first body on
PhysicsLoop(os, paused, speed, fc) ==
    OuterLoop([objs |-> os, fc |-> fc, reads |-> <<>>, pushed |-> {},
               ok |-> TRUE], 1, paused, speed)

\* The model's range: every distance and velocity the next frame computes
\* with fits the integer width.
InRange(os) ==
    \A i \in 1..Len(os) : \A k \in 1..3 :
        /\ Abs(os[i].position[k]) <= MaxDist
        /\ Abs(os[i].velocity[k]) <= MaxVel
        /\ \A j \in 1..Len(os) :
              Abs(os[i].position[k] - os[j].position[k]) <= MaxDist

(***************************************************************************)
(* One iteration of the frame loop of main.                                *)
(***************************************************************************)
\* objs.back().mass *= 1.0 + 1.0 * deltaTime, then the radius from the new
\* mass (deltaTime in milliseconds).
Grow(os, dt) ==
    LET n == Len(os)
        m == os[n].mass + (os[n].mass * dt) \div 1000
    IN [os EXCEPT ![n].mass = m, ![n].radius = MassRadius(m, os[n].density)]

FrameStep(kDown, rightDown, dt) ==
    \E paused \in {kDown} :
    \E grown \in {IF Len(objs) > 0 /\ objs[Len(objs)].Initalizing /\ rightDown
                  THEN Grow(objs, dt) ELSE objs} :
    \E res \in {PhysicsLoop(grown, paused, simulationSpeed, frameCount)} :
       /\ res.ok
       /\ InRange(res.objs)
       /\ pause' = paused
       /\ objs' = res.objs
       /\ frameCount' = res.fc
       /\ frames' = frames + 1
       /\ tick' = [pre |-> grown, paused |-> paused,
                   speed |-> simulationSpeed, reads |-> res.reads]
       /\ trailCalls' = [i \in 1..Len(objs) |->
                           IF ~paused /\ grown[i].hasTrail
                           THEN trailCalls[i] + 1 ELSE trailCalls[i]]
       /\ sampled' = [i \in 1..Len(objs) |->
                        IF i \in res.pushed
                        THEN Append(sampled[i], res.objs[i].position)
                        ELSE sampled[i]]
       /\ UNCHANGED <<simulationSpeed, keyEvents, engineVars, probe, gridVars,
                   errors, pc, orbit, gl>>

\* a frame in which neither Space nor Left Shift is held
Frame(kDown, rightDown, dt) ==
    /\ frames < MaxFrames
    /\ FrameStep(kDown, rightDown, dt)
    /\ UNCHANGED cameraPos

(***************************************************************************)
(* keyCallback                                                             *)
(***************************************************************************)
SpeedOf(key) ==
    CASE key = "0" -> 2 [] key = "1" -> 1 [] key = "2" -> 4
      [] key = "3" -> 10 [] key = "4" -> 20

\* The arrow-key block, applied to the position of the last body.
MoveByKey(p, key, shiftPressed) ==
    LET y1 == IF key = "UP" /\ ~shiftPressed THEN p[2] + 1 ELSE p[2]
        y2 == IF key = "DOWN" /\ ~shiftPressed THEN y1 - 1 ELSE y1
        x1 == IF key = "RIGHT" THEN p[1] + 1 ELSE p[1]
        x2 == IF key = "LEFT" THEN x1 - 1 ELSE x1
        z1 == IF key = "UP" THEN p[3] + 1 ELSE p[3]
        z2 == IF key = "DOWN" THEN z1 - 1 ELSE z1
    IN <<x2, y2, z2>>

keyCallback(key, action, shiftPressed) ==
    /\ keyEvents < MaxKeyEvents
    /\ keyEvents' = keyEvents + 1
    /\ simulationSpeed' = IF action = "PRESS" /\ key \in SpeedKeys
                          THEN SpeedOf(key) ELSE simulationSpeed
    /\ objs' = IF /\ Len(objs) > 0
                  /\ objs[Len(objs)].Initalizing
                  /\ key \in ArrowKeys
                  /\ action \in {"PRESS", "REPEAT"}
               THEN [objs EXCEPT ![Len(objs)].position =
                                    MoveByKey(@, key, shiftPressed)]
               ELSE objs
    /\ UNCHANGED <<pause, frameCount, frames, tick, trailCalls, sampled,
                   engineVars, probe, gridVars,
                   errors, pc, sideVars>>

(***************************************************************************)
(* mouseButtonCallback                                                     *)
(***************************************************************************)
\* Mutant: the flag is set on the last body before the new one is emplaced.
PressLeftFlagsOldBack(os) ==
    Append([os EXCEPT ![Len(os)].Initalizing = TRUE],
           [NewObject(Zero3, Zero3, initMass, DefaultDensity)
              EXCEPT !.Initalizing = TRUE])

\* Mutant: the new body is emplaced and left with Initalizing = false.
PressLeftNoFlag(os) ==
    Append(os, NewObject(Zero3, Zero3, initMass, DefaultDensity))

\* GLFW_PRESS: objs.emplace_back(origin, zero, initMass); Initalizing = true
PressLeft(os) ==
    Append(os, [NewObject(Zero3, Zero3, initMass, DefaultDensity)
                  EXCEPT !.Initalizing = TRUE])

\* GLFW_RELEASE: the last body leaves initialization and is launched
ReleaseLeft(os) ==
    [os EXCEPT ![Len(os)].Initalizing = FALSE, ![Len(os)].Launched = TRUE]

mouseButtonCallback(button, action) ==
    /\ button = "LEFT" /\ action = "PRESS" => Len(objs) < MaxBodies
    /\ objs' = IF button = "LEFT" /\ action = "PRESS" THEN PressLeft(objs)
               ELSE IF button = "LEFT" /\ action = "RELEASE"
               THEN ReleaseLeft(objs)
               ELSE objs
    /\ trailCalls' = IF Len(objs') > Len(objs) THEN Append(trailCalls, 0)
                     ELSE trailCalls
    /\ sampled' = IF Len(objs') > Len(objs) THEN Append(sampled, <<>>)
                  ELSE sampled
    /\ UNCHANGED <<pause, simulationSpeed, frameCount, frames, keyEvents,
                   tick, engineVars, probe, gridVars,
                   errors, pc, sideVars>>

(***************************************************************************)
(* The program: the state main builds before its loop, then frames with   *)
(* the callbacks glfwPollEvents delivers between them.                     *)
(***************************************************************************)
InitialObjs ==
    <<[NewObject(<<MoonX, 0, 0>>, <<0, 0, MoonVz>>, MoonMass, MoonDensity)
         EXCEPT !.hasTrail = TRUE],
      NewObject(Zero3, Zero3, EarthMass, EarthDensity)>>

\* PhysicsEngine's constructor: no objects, time scale 1, not paused
EngineInit ==
    /\ m_objects = <<>>
    /\ m_timeScale = 1
    /\ m_paused = FALSE
    /\ m_updateCount = 0

\* no CheckCollision probe under way
NoProbe == [this |-> NewObject(Zero3, Zero3, initMass, DefaultDensity),
            other |-> NewObject(Zero3, Zero3, initMass, DefaultDensity),
            factor |-> 0]

\* gridVertices before the first frame has refreshed it
GridInit ==
    /\ gridVertices = <<>>
    /\ gridLog = <<>>

\* an Object on the fine grid: position and velocity in thousandths of a
\* world unit, the rest as on the coarse grid
FineObject(o) ==
    [o EXCEPT !.position = [k \in 1..3 |-> o.position[k] * (MilliScale \div PosScale)],
              !.velocity = [k \in 1..3 |-> o.velocity[k] * MilliScale]]

\* objs = {...} of main, before the first tick
OrbitStart ==
    [objs |-> [i \in 1..Len(InitialObjs) |-> FineObject(InitialObjs[i])],
     ticks |-> 0]

\* cameraPos = glm::vec3(0.0f, 1000.0f, 5000.0f): its height
CameraStartY == 1000

\* a variable that holds no wrapper (not yet constructed, or destroyed)
NoWrapper == [alive |-> FALSE, kind |-> "VAO", m_id |-> 0, m_valid |-> FALSE]

\* no wrapper constructed, no OpenGL name generated
GlStart ==
    [wrappers |-> [s \in 1..MaxWrappers |-> NoWrapper],
     live |-> {},
     gens |-> 0,
     deletes |-> 0,
     badDeletes |-> 0,
     last |-> "none"]

SideInit ==
    /\ orbit = OrbitStart
    /\ cameraPos = CameraStartY
    /\ gl = GlStart

\* nothing has been reported when the frame loop starts
NoErrors == errors = <<>>

\* every frame is between its poll and the next one's
BetweenFrames == pc = 0

InitWith(os) ==
    /\ EngineInit
    /\ GridInit
    /\ NoErrors
    /\ SideInit
    /\ BetweenFrames
    /\ probe = NoProbe
    /\ objs = os
    /\ pause = FALSE
    /\ simulationSpeed = 2
    /\ frameCount = 0
    /\ frames = 0
    /\ keyEvents = 0
    /\ tick = [pre |-> os, paused |-> FALSE, speed |-> 2, reads |-> <<>>]
    /\ trailCalls = [i \in 1..Len(os) |-> 0]
    /\ sampled = [i \in 1..Len(os) |-> <<>>]

Init == InitWith(InitialObjs)

Next ==
    \/ \E kDown \in BOOLEAN, rightDown \in BOOLEAN, dt \in DeltaTimes :
          Frame(kDown, rightDown, dt)
    \/ \E key \in Keys, action \in KeyActions, shiftPressed \in BOOLEAN :
          keyCallback(key, action, shiftPressed)
    \/ \E button \in {"LEFT", "RIGHT"}, action \in MouseActions :
          mouseButtonCallback(button, action)

Spec == Init /\ [][Next]_vars

(***************************************************************************)
(* A long run without input events other than the K key: frames only.      *)
(***************************************************************************)
RunFrame(kDown, dt) ==
    /\ frames < MaxRunFrames
    /\ FrameStep(kDown, FALSE, dt)
    /\ UNCHANGED cameraPos

NextRun ==
    \E kDown \in BOOLEAN, dt \in DeltaTimes : RunFrame(kDown, dt)

SpecRun == Init /\ [][NextRun]_vars

\* The same run from a body set in which the second body may have a trail
\* too (hasTrail is a public per-object flag).
InitTrails ==
    \E t \in BOOLEAN :
        InitWith([InitialObjs EXCEPT ![2].hasTrail = t])

SpecTrails == InitTrails /\ [][NextRun]_vars

(***************************************************************************)
(* PhysicsObject and PhysicsEngine of modern_physics_engine.h, on the same *)
(* grid as the simulator: mass in 10^18 kg, lengths in half world units.   *)
(***************************************************************************)
MaxEngineObjects == 2
MaxEngineUpdates == 2
MaxEnginePos == 100000

EnginePositions == {Zero3, <<40, 0, 0>>}
EngineMasses == {0, 100, 800}
EngineRadii == {0, 3, 7}
EngineTimeScales == {-1, 0, 1, 2}
EngineDeltaTimes == {1, 2}

\* PhysicsObject's constructor: the radius is an argument of its own.
\* m_accNaN says m_acceleration is NaN, m_nan that m_velocity and
\* m_position are (the vectors then hold their last numbers).
PhysicsObject(position, velocity, mass, radius) ==
    [m_position |-> position, m_velocity |-> velocity,
     m_acceleration |-> Zero3, m_mass |-> mass, m_radius |-> radius,
     m_active |-> TRUE, m_accNaN |-> FALSE, m_nan |-> FALSE]

\* a force no component of which is a number
NaNForce == [nan |-> TRUE, v |-> Zero3]

\* PhysicsObject::calculateGravitationalForce: zero inside the sum of the
\* radii, else direction.normalized() * G * m1 * m2 / distance^2.  At
\* distance 0 outside the radii normalized() is the zero vector and the
\* magnitude is x / 0: the product is NaN.  A NaN position fails the
\* comparison and gives a NaN magnitude.
calculateGravitationalForce(this, other) ==
    LET direction == VecSub(other.m_position, this.m_position)
        d2 == Norm2(direction)
        reach == this.m_radius + other.m_radius
    IN IF this.m_nan \/ other.m_nan THEN NaNForce
       ELSE IF d2 < reach * reach THEN [nan |-> FALSE, v |-> Zero3]
       ELSE IF d2 = 0 THEN NaNForce
       ELSE LET forceMagnitude == (GScaled * this.m_mass * other.m_mass) \div d2
            IN [nan |-> FALSE,
                v |-> [k \in 1..3 |-> TDiv(direction[k] * forceMagnitude, ISqrt(d2))]]

\* force * T{-1.0}
NegForce(force) == [nan |-> force.nan, v |-> [k \in 1..3 |-> -force.v[k]]]

\* PhysicsObject::applyForce: the acceleration is assigned, not accumulated
applyForce(o, force) ==
    IF o.m_mass > 0
    THEN [o EXCEPT !.m_acceleration = [k \in 1..3 |-> TDiv(force.v[k], o.m_mass)],
                   !.m_accNaN = force.nan]
    ELSE o

\* PhysicsObject::updatePhysics
ObjectUpdatePhysics(o, deltaTime) ==
    IF ~o.m_active THEN o
    ELSE IF o.m_nan \/ o.m_accNaN
    THEN [o EXCEPT !.m_nan = TRUE, !.m_accNaN = FALSE, !.m_acceleration = Zero3]
    ELSE LET v == [k \in 1..3 |-> o.m_velocity[k] + o.m_acceleration[k] * deltaTime]
         IN [o EXCEPT !.m_velocity = v,
                      !.m_position = [k \in 1..3 |-> @[k] + v[k] * deltaTime],
                      !.m_acceleration = Zero3]

\* the body of the pair loop of PhysicsEngine::updatePhysics
ApplyPair(os, i, j) ==
    IF os[i].m_active /\ os[j].m_active
    THEN LET force == calculateGravitationalForce(os[i], os[j])
         IN [os EXCEPT ![i] = applyForce(@, force),
                       ![j] = applyForce(@, NegForce(force))]
    ELSE os

\* for (i = 0; i < size; i++) for (j = i + 1; j < size; j++)
RECURSIVE ForceLoop(_, _, _)
ForceLoop(os, i, j) ==
    IF i > Len(os) THEN os
    ELSE IF j > Len(os) THEN ForceLoop(os, i + 1, i + 2)
    ELSE Only({ForceLoop(s, i, j + 1) : s \in {ApplyPair(os, i, j)}})

EngineInRange(os) ==
    \A i \in 1..Len(os) : \A k \in 1..3 :
        /\ Abs(os[i].m_position[k]) <= MaxEnginePos
        /\ Abs(os[i].m_velocity[k]) <= MaxEnginePos

\* PhysicsEngine::addObject
addObject(position, mass, radius) ==
    /\ Len(m_objects) < MaxEngineObjects
    /\ m_objects' = Append(m_objects, PhysicsObject(position, Zero3, mass, radius))
    /\ UNCHANGED <<m_timeScale, m_paused, m_updateCount, simVars, probe,
                   gridVars, errors, pc, sideVars>>

\* PhysicsObject::setMass
setMass(i, mass) ==
    /\ i \in 1..Len(m_objects)
    /\ m_objects' = [m_objects EXCEPT ![i].m_mass = mass]
    /\ UNCHANGED <<m_timeScale, m_paused, m_updateCount, simVars, probe,
                   gridVars, errors, pc, sideVars>>

\* PhysicsObject::setRadius
setRadius(i, radius) ==
    /\ i \in 1..Len(m_objects)
    /\ m_objects' = [m_objects EXCEPT ![i].m_radius = radius]
    /\ UNCHANGED <<m_timeScale, m_paused, m_updateCount, simVars, probe,
                   gridVars, errors, pc, sideVars>>

\* PhysicsEngine::setPaused
setPaused(paused) ==
    /\ m_paused' = paused
    /\ UNCHANGED <<m_objects, m_timeScale, m_updateCount, simVars, probe,
                   gridVars, errors, pc, sideVars>>

\* PhysicsEngine::setTimeScale
setTimeScale(value) ==
    /\ m_timeScale' = value
    /\ UNCHANGED <<m_objects, m_paused, m_updateCount, simVars, probe,
                   gridVars, errors, pc, sideVars>>

\* PhysicsEngine::updatePhysics
updatePhysics(deltaTime) ==
    /\ m_updateCount < MaxEngineUpdates
    /\ IF m_paused
       THEN UNCHANGED <<m_objects, m_updateCount>>
       ELSE \E forced \in {ForceLoop(m_objects, 1, 2)} :
            \E os \in {[i \in 1..Len(forced) |->
                          ObjectUpdatePhysics(forced[i], deltaTime * m_timeScale)]} :
               /\ EngineInRange(os)
               /\ m_objects' = os
               /\ m_updateCount' = m_updateCount + 1
    /\ UNCHANGED <<m_timeScale, m_paused, simVars, probe,
                   gridVars, errors, pc, sideVars>>

NextEngine ==
    \/ \E position \in EnginePositions, mass \in EngineMasses,
          radius \in EngineRadii : addObject(position, mass, radius)
    \/ \E i \in 1..MaxEngineObjects, mass \in EngineMasses : setMass(i, mass)
    \/ \E i \in 1..MaxEngineObjects, radius \in EngineRadii : setRadius(i, radius)
    \/ \E paused \in BOOLEAN : setPaused(paused)
    \/ \E value \in EngineTimeScales : setTimeScale(value)
    \/ \E deltaTime \in EngineDeltaTimes : updatePhysics(deltaTime)

SpecEngine == Init /\ [][NextEngine]_vars

(***************************************************************************)
(* Object::CheckCollision as a function of two objects: the objects are    *)
(* drawn from a grid of positions and radii, then the function is applied. *)
(***************************************************************************)
MaxProbeCoord == 6
MaxProbeRadius == 3

ProbePositions ==
    {<<x, y, z>> : x \in 0..MaxProbeCoord, y \in {0, 3}, z \in {0, 4}}

ProbeObject(position, radius) ==
    [NewObject(position, Zero3, initMass, DefaultDensity) EXCEPT !.radius = radius]

InitCollision ==
    /\ EngineInit
    /\ GridInit
    /\ NoErrors
    /\ SideInit
    /\ BetweenFrames
    /\ \E position \in ProbePositions :
       \E ra \in 1..MaxProbeRadius, rb \in 1..MaxProbeRadius :
          probe = [this |-> ProbeObject(Zero3, ra),
                   other |-> ProbeObject(position, rb),
                   factor |-> 0]
    /\ objs = InitialObjs
    /\ pause = FALSE
    /\ simulationSpeed = 2
    /\ frameCount = 0
    /\ frames = 0
    /\ keyEvents = 0
    /\ tick = [pre |-> InitialObjs, paused |-> FALSE, speed |-> 2, reads |-> <<>>]
    /\ trailCalls = [i \in 1..Len(InitialObjs) |-> 0]
    /\ sampled = [i \in 1..Len(InitialObjs) |-> <<>>]

\* factor = this.CheckCollision(other)
ApplyCheckCollision ==
    /\ probe.factor = 0
    /\ probe' = [probe EXCEPT !.factor = CheckCollision(probe.this, probe.other)]
    /\ UNCHANGED <<simVars, engineVars, gridVars, errors, pc, sideVars>>

NextCollision == ApplyCheckCollision

SpecCollision == InitCollision /\ [][NextCollision]_vars

(***************************************************************************)
(* CreateGridVertices: the curvature grid main rebuilds in every frame.    *)
(* Vertices are <<x, y, z>> in half world units; the result carries, per   *)
(* vertex, the displaced y and whether it is NaN.  The loops over the      *)
(* grid lines are kept, with GridDivisions lines standing for the 50 of    *)
(* the call.  For every mass the grid can hold rs = 2*G*mass/c^2 is less   *)
(* than one grid step, so distance_m < rs happens at distance 0 only.      *)
(***************************************************************************)
MaxGridCalls == 2
GridDivisions == 4
GridSize == 10000
\* 2 * sqrt(rs * distance_m) * 100 = GridZStep * sqrt(mass * d / CurvatureScaled)
\* for mass in 10^18 kg, d in half world units: 2*G*10^18/c^2 * 500 * 400
\* is 1/3367
CurvatureScaled == 3367
GridZStep == 10
GridYDivisor == 15
GridYOffset == 3000

\* step = size / divisions, in half world units
GridStep(size, divisions) == (PosScale * size) \div divisions

\* y = -halfSize*0.3f + yStep * step with yStep = 3
GridY(size, divisions) == 3 * GridStep(size, divisions) - (3 * size) \div 10

\* the "x axis" loops: for zStep in 0..divisions, xStep in 0..divisions-1,
\* push (xStart, y, z) and (xEnd, y, z)
GridXLines(size, divisions) ==
    [k \in 1..(2 * divisions * (divisions + 1)) |->
        LET seg == (k - 1) \div 2
            zStep == seg \div divisions
            xStep == seg % divisions
            step == GridStep(size, divisions)
        IN <<-size + (xStep + ((k - 1) % 2)) * step,
             GridY(size, divisions),
             -size + zStep * step>>]

\* the "z axis" loops: for xStep in 0..divisions, zStep in 0..divisions-1,
\* push (x, y, zStart) and (x, y, zEnd)
GridZLines(size, divisions) ==
    [k \in 1..(2 * divisions * (divisions + 1)) |->
        LET seg == (k - 1) \div 2
            xStep == seg \div divisions
            zStep == seg % divisions
            step == GridStep(size, divisions)
        IN <<-size + xStep * step,
             GridY(size, divisions),
             -size + (zStep + ((k - 1) % 2)) * step>>]

GridLines(size, divisions) ==
    GridXLines(size, divisions) \o GridZLines(size, divisions)

\* float z = 2 * sqrt(rs*(distance_m - rs)) * 100.0f for one object: NaN
\* when the argument of sqrt is negative
GridTerm(obj, vertexPos) ==
    LET d2 == Norm2(VecSub(obj.position, vertexPos))
    IN IF d2 = 0
       THEN [nan |-> obj.mass > 0, z |-> 0]
       ELSE [nan |-> FALSE,
             z |-> GridZStep * ISqrt(MulDiv(obj.mass, ISqrt(d2), CurvatureScaled))]

\* for (const auto& obj : objs) totalDisplacement += z
RECURSIVE TotalDisplacement(_, _, _)
TotalDisplacement(os, vertexPos, i) ==
    IF i > Len(os) THEN [nan |-> FALSE, z |-> 0]
    ELSE LET term == GridTerm(os[i], vertexPos)
             rest == TotalDisplacement(os, vertexPos, i + 1)
         IN [nan |-> term.nan \/ rest.nan, z |-> term.z + rest.z]

\* vertices[i+1] = vertexPos[1] / 15.0f - 3000.0f, after vertexPos += total
DisplaceVertex(vertexPos, total, bias) ==
    [x |-> vertexPos[1],
     z |-> vertexPos[3],
     nan |-> total.nan,
     y |-> IF total.nan THEN 0
           ELSE TDiv(vertexPos[2] + PosScale * total.z, GridYDivisor)
                - PosScale * GridYOffset + bias]

\* Mutant: the function keeps a count of its calls and lets it into the
\* result.
CreateGridVerticesCounting(size, divisions, os) ==
    LET lines == GridLines(size, divisions)
    IN [k \in 1..Len(lines) |->
          DisplaceVertex(lines[k], TotalDisplacement(os, lines[k], 1),
                         Len(gridLog))]

CreateGridVertices(size, divisions, os) ==
    LET lines == GridLines(size, divisions)
    IN [k \in 1..Len(lines) |->
          DisplaceVertex(lines[k], TotalDisplacement(os, lines[k], 1), 0)]

\* gridVertices = CreateGridVertices(10000.0f, 50, objs) of the frame loop
GridRefresh ==
    /\ Len(gridLog) < MaxGridCalls
    /\ \E out \in {CreateGridVertices(GridSize, GridDivisions, objs)} :
          /\ gridVertices' = out
          /\ gridLog' = Append(gridLog, [size |-> GridSize,
                                         divisions |-> GridDivisions,
                                         os |-> objs, out |-> out])
    /\ UNCHANGED <<simVars, engineVars, probe, errors, pc, sideVars>>

\* where a body being placed may sit: at the origin, one arrow step away,
\* or on a grid vertex
GridBodyPositions ==
    {Zero3, <<1, 0, 0>>} \cup
    {GridLines(GridSize, GridDivisions)[k] : k \in 1..2}

InitGrid ==
    \E position \in GridBodyPositions, mass \in {initMass, 2 * initMass} :
        InitWith(Append(InitialObjs,
                        [NewObject(position, Zero3, mass, DefaultDensity)
                           EXCEPT !.Initalizing = TRUE]))

NextGrid ==
    \/ GridRefresh
    \/ \E key \in Keys, action \in KeyActions, shiftPressed \in BOOLEAN :
          keyCallback(key, action, shiftPressed)

SpecGrid == InitGrid /\ [][NextGrid]_vars

(***************************************************************************)
(* The frame in steps: the head of the loop body (K key, grow), then one   *)
(* step per body of the physics loop, then glfwPollEvents, which is where  *)
(* GLFW runs the callbacks.                                                *)
(***************************************************************************)
\* Mutant: callbacks are delivered at any point of the frame.
CallbacksRunAnywhere == TRUE

\* callbacks run inside glfwPollEvents(), the last statement of the frame
CallbacksRun == pc = 0

\* pause from the K key, the grow block, then the physics loop is entered
BeginFrame(kDown, rightDown, dt) ==
    /\ pc = 0
    /\ frames < MaxFrames
    /\ \E grown \in {IF Len(objs) > 0 /\ objs[Len(objs)].Initalizing /\ rightDown
                      THEN Grow(objs, dt) ELSE objs} :
          /\ objs' = grown
          /\ tick' = [pre |-> grown, paused |-> kDown,
                      speed |-> simulationSpeed, reads |-> <<>>]
    /\ pause' = kDown
    /\ pc' = 1
    /\ UNCHANGED <<simulationSpeed, frameCount, frames, keyEvents, trailCalls,
                   sampled, engineVars, probe, gridVars, errors, sideVars>>

\* one pass of for(auto& obj : objs) for obj = objs[pc]
StepBody ==
    /\ pc \in 1..Len(objs)
    /\ \E st \in {BodyStep([objs |-> objs, fc |-> frameCount,
                             reads |-> tick.reads, pushed |-> {}, ok |-> TRUE],
                            pc, pause, simulationSpeed)} :
          /\ st.ok
          /\ InRange(st.objs)
          /\ objs' = st.objs
          /\ frameCount' = st.fc
          /\ tick' = [tick EXCEPT !.reads = st.reads]
          /\ sampled' = IF pc \in st.pushed
                        THEN [sampled EXCEPT ![pc] = Append(@, st.objs[pc].position)]
                        ELSE sampled
    /\ trailCalls' = IF ~pause /\ objs[pc].hasTrail
                     THEN [trailCalls EXCEPT ![pc] = @ + 1] ELSE trailCalls
    /\ pc' = IF pc = Len(objs) THEN 0 ELSE pc + 1
    /\ frames' = IF pc = Len(objs) THEN frames + 1 ELSE frames
    /\ UNCHANGED <<pause, simulationSpeed, keyEvents, engineVars, probe,
                   gridVars, errors, sideVars>>

PollKey(key, action, shiftPressed) ==
    /\ CallbacksRun
    /\ keyCallback(key, action, shiftPressed)

PollMouse(button, action) ==
    /\ CallbacksRun
    /\ mouseButtonCallback(button, action)

NextSteps ==
    \/ \E kDown \in BOOLEAN, rightDown \in BOOLEAN, dt \in DeltaTimes :
          BeginFrame(kDown, rightDown, dt)
    \/ StepBody
    \/ \E key \in Keys, action \in KeyActions, shiftPressed \in BOOLEAN :
          PollKey(key, action, shiftPressed)
    \/ \E button \in {"LEFT", "RIGHT"}, action \in MouseActions :
          PollMouse(button, action)

SpecSteps == Init /\ [][NextSteps]_vars

(***************************************************************************)
(* The repository's two programs side by side: a run is one of the         *)
(* simulator (the engine untouched) or one of the engine (the simulator    *)
(* still in its start state); neither program uses the other.              *)
(***************************************************************************)
EngineUnused ==
    /\ m_objects = <<>>
    /\ m_timeScale = 1
    /\ ~m_paused
    /\ m_updateCount = 0

SimulatorUnused ==
    /\ objs = InitialObjs
    /\ frames = 0
    /\ keyEvents = 0

NextEither ==
    \/ EngineUnused /\ Next
    \/ SimulatorUnused /\ NextEngine

SpecEither == Init /\ [][NextEither]_vars

(***************************************************************************)
(* The frame with the keys it polls for the camera's height: Space raises  *)
(* the camera and Left Shift lowers it by cameraSpeed = 1000 * deltaTime;  *)
(* the K key alone sets pause.                                             *)
(***************************************************************************)
FrameWithKeys(spaceDown, shiftDown, kDown, rightDown, dt) ==
    /\ frames < MaxFrames
    /\ FrameStep(kDown, rightDown, dt)
    /\ cameraPos' = cameraPos + (IF spaceDown THEN dt ELSE 0)
                              - (IF shiftDown THEN dt ELSE 0)

NextControls ==
    \/ \E spaceDown \in BOOLEAN, shiftDown \in BOOLEAN, kDown \in BOOLEAN,
          rightDown \in BOOLEAN, dt \in DeltaTimes :
          FrameWithKeys(spaceDown, shiftDown, kDown, rightDown, dt)
    \/ \E key \in Keys, action \in KeyActions, shiftPressed \in BOOLEAN :
          keyCallback(key, action, shiftPressed)

SpecControls == Init /\ [][NextControls]_vars


(***************************************************************************)
(* The physics loop on the fine grid, for the orbit of main's two bodies:  *)
(* positions, velocities and accelerations in thousandths of a world unit, *)
(* distances in tenths.  The loop is the one of PhysicsLoop (same order,   *)
(* same guards); trails, which the loop never reads, are left out.         *)
(***************************************************************************)
\* G * 10^18 / 10^6 = 66.743, as a fraction over a thousand
GFine == 66743
DeciPerMilli == 100
\* the tenths of a world unit in one half unit (the grid of the radius)
DeciPerHalf == 5

\* G * mass, in 10^6 m^3/s^2, for a mass in 10^18 kg
FineGM(mass) == MulDiv(mass, GFine, 1000)

\* sign(x) * (a * |x| / c), without forming a * |x|
SignedMulDiv(a, x, c) ==
    IF x >= 0 THEN MulDiv(a, x, c) ELSE -MulDiv(a, -x, c)

\* Mutant: the acceleration is added without its division by 96.
FineAccelerateUnscaled(obj, a, speed) ==
    [obj EXCEPT !.velocity =
        [k \in 1..3 |-> @[k] + TDiv(a[k] * speed, SpeedScale)]]

\* Object::accelerate
FineAccelerate(obj, a, speed) ==
    [obj EXCEPT !.velocity =
        [k \in 1..3 |-> @[k] + TDiv(TDiv(a[k], AccelDivisor) * speed, SpeedScale)]]

\* Object::CheckCollision, the distance in tenths
FineCheckCollision(this, other) ==
    LET d == [k \in 1..3 |->
                TDiv(other.position[k] - this.position[k], DeciPerMilli)]
    IN IF (other.radius + this.radius) * DeciPerHalf > ISqrt(Norm2(d))
       THEN DampFactor ELSE NoDampFactor

\* Object::UpdatePos
FineUpdatePos(obj, speed) ==
    [obj EXCEPT
       !.position = [k \in 1..3 |->
                       @[k] + TDiv(TDiv(obj.velocity[k], PosDivisor) * speed,
                                   SpeedScale)],
       !.radius = MassRadius(obj.mass, obj.density)]

\* the distances the fine grid can hold: at most MaxFineDist world units
\* (the square of the distance in tenths fits the integer width), and far
\* enough for the squared distance to keep its digits
FineInRange(d) ==
    /\ \A k \in 1..3 : Abs(d[k]) <= MaxFineDist * MilliScale
    /\ Norm2([k \in 1..3 |-> TDiv(d[k], MilliScale)]) <= MaxFineDist * MaxFineDist
    /\ Norm2([k \in 1..3 |-> TDiv(d[k], MilliScale)]) >= 10

\* One pass of the inner loop body for obj = objs[i], obj2 = objs[j]; ok
\* turns FALSE when the pair is outside the grid.
FinePairStep(st, i, j, paused, speed) ==
    LET obj == st.objs[i]
        obj2 == st.objs[j]
        d == VecSub(obj2.position, obj.position)
        d10 == [k \in 1..3 |-> TDiv(d[k], DeciPerMilli)]
    IN IF ~Interacts(st.objs, i, j) THEN st
       ELSE IF d = Zero3 THEN st
       ELSE IF ~FineInRange(d) THEN [st EXCEPT !.ok = FALSE]
       ELSE LET n2 == Norm2(d10)
                distance == ISqrt(n2)
                \* G * obj2.mass / (distance * 1000)^2
                acc1 == MulDiv(FineGM(obj2.mass), 100, n2 \div 1000)
                acc == [k \in 1..3 |-> SignedMulDiv(acc1, d10[k], distance)]
                pushedOn == IF ~paused THEN FineAccelerate(obj, acc, speed)
                            ELSE obj
                factor == FineCheckCollision(pushedOn, obj2)
            IN [st EXCEPT !.objs[i] = [pushedOn EXCEPT
                                         !.velocity = ScaleVelocity(@, factor)]]

RECURSIVE FineInnerLoop(_, _, _, _, _)
FineInnerLoop(st, i, j, paused, speed) ==
    IF ~st.ok \/ j > Len(st.objs) THEN st
    ELSE Only({FineInnerLoop(s, i, j + 1, paused, speed) :
                 s \in {FinePairStep(st, i, j, paused, speed)}})

FineBodyStep(st, i, paused, speed) ==
    LET s1 == FineInnerLoop(st, i, 1, paused, speed)
    IN IF s1.ok /\ ~paused
       THEN [s1 EXCEPT !.objs[i] = FineUpdatePos(@, speed)]
       ELSE s1

RECURSIVE FineOuterLoop(_, _, _, _)
FineOuterLoop(st, i, paused, speed) ==
    IF ~st.ok \/ i > Len(st.objs) THEN st
    ELSE Only({FineOuterLoop(s, i + 1, paused, speed) :
                 s \in {FineBodyStep(st, i, paused, speed)}})

\* one unpaused frame at the speed the program starts with (1.0x)
OrbitTick ==
    /\ orbit.ticks < MaxOrbitTicks
    /\ \E st \in {FineOuterLoop([objs |-> orbit.objs, ok |-> TRUE], 1, FALSE,
                                SpeedOf("0"))} :
          /\ st.ok
          /\ orbit' = [objs |-> st.objs, ticks |-> orbit.ticks + 1]
    /\ UNCHANGED <<simVars, engineVars, probe, gridVars, errors, pc,
                   cameraPos, gl>>

NextOrbit == OrbitTick

SpecOrbit == Init /\ [][NextOrbit]_vars


(***************************************************************************)
(* The run of frames from a body set whose last body is being formed and   *)
(* has its trail enabled (hasTrail is a public flag of Object, false by    *)
(* default).                                                               *)
(***************************************************************************)
InitFormingTrail ==
    InitWith(Append(InitialObjs,
                    [NewObject(Zero3, Zero3, initMass, DefaultDensity)
                       EXCEPT !.Initalizing = TRUE, !.hasTrail = TRUE]))

SpecFormingTrail == InitFormingTrail /\ [][NextRun]_vars


(***************************************************************************)
(* The engine with three objects added (three addObject calls), then       *)
(* updates, pauses and time scales.                                        *)
(***************************************************************************)
ThreeBodyPositions ==
    {<<<<0, 0, 0>>, <<40, 0, 0>>, <<0, 30, 0>>>>,
     <<<<0, 0, 0>>, <<40, 0, 0>>, <<80, 0, 0>>>>,
     <<<<0, 0, 0>>, <<0, 30, 0>>, <<40, 30, 0>>>>}

InitEngineThree ==
    /\ \E ps \in ThreeBodyPositions :
       \E m1 \in EngineMasses \ {0}, m2 \in EngineMasses \ {0},
          m3 \in EngineMasses \ {0} :
          m_objects = <<PhysicsObject(ps[1], Zero3, m1, 3),
                        PhysicsObject(ps[2], Zero3, m2, 3),
                        PhysicsObject(ps[3], Zero3, m3, 3)>>
    /\ m_timeScale = 1
    /\ m_paused = FALSE
    /\ m_updateCount = 0
    /\ GridInit
    /\ NoErrors
    /\ SideInit
    /\ BetweenFrames
    /\ probe = NoProbe
    /\ objs = InitialObjs
    /\ pause = FALSE
    /\ simulationSpeed = 2
    /\ frameCount = 0
    /\ frames = 0
    /\ keyEvents = 0
    /\ tick = [pre |-> InitialObjs, paused |-> FALSE, speed |-> 2, reads |-> <<>>]
    /\ trailCalls = [i \in 1..Len(InitialObjs) |-> 0]
    /\ sampled = [i \in 1..Len(InitialObjs) |-> <<>>]

NextEngineThree ==
    \/ \E paused \in BOOLEAN : setPaused(paused)
    \/ \E value \in EngineTimeScales : setTimeScale(value)
    \/ \E deltaTime \in EngineDeltaTimes : updatePhysics(deltaTime)

SpecEngineThree == InitEngineThree /\ [][NextEngineThree]_vars


(***************************************************************************)
(* The RAII wrappers of modern_opengl_manager.h (VAOWrapper, VBOWrapper,   *)
(* ShaderProgramWrapper: the same code over three kinds of OpenGL name).   *)
(* gl.wrappers are the program's wrapper variables; gl.live is the set of  *)
(* names OpenGL has generated and not deleted; gens and deletes count the  *)
(* glGen / glDelete calls that took effect, badDeletes the glDelete calls  *)
(* on a name that was not live (deleted before, or never generated).       *)
(* OpenGL may hand out a deleted name again.                               *)
(***************************************************************************)
WrapperKinds == {"VAO", "VBO", "Program"}
Slots == 1..MaxWrappers

\* glDeleteVertexArrays / glDeleteBuffers / glDeleteProgram on one name
GlDelete(g, kind, id) ==
    IF <<kind, id>> \in g.live
    THEN [g EXCEPT !.live = @ \ {<<kind, id>>}, !.deletes = @ + 1]
    ELSE [g EXCEPT !.badDeletes = @ + 1]

\* if (m_valid && m_id != 0) glDelete...(1, &m_id)
Release(g, w) ==
    IF w.m_valid /\ w.m_id # 0 THEN GlDelete(g, w.kind, w.m_id) ELSE g

\* Mutant: the move leaves the source with its id and its valid flag.
MovedFromKeepingId(other) == other

\* other.m_id = 0; other.m_valid = false
MovedFrom(other) == [other EXCEPT !.m_id = 0, !.m_valid = FALSE]

\* the constructor: glGen... yields a name not in use, m_valid = true
Construct(s, kind, id) ==
    /\ ~gl.wrappers[s].alive
    /\ gl.gens < MaxGlIds
    /\ <<kind, id>> \notin gl.live
    /\ gl' = [gl EXCEPT
                !.wrappers[s] = [alive |-> TRUE, kind |-> kind, m_id |-> id,
                                 m_valid |-> TRUE],
                !.live = @ \cup {<<kind, id>>},
                !.gens = @ + 1,
                !.last = "Construct"]
    /\ UNCHANGED <<simVars, engineVars, probe, gridVars, errors, pc, orbit,
                   cameraPos>>

\* the constructor when glGen... yields 0: it throws, no wrapper exists
ConstructFails(s, kind) ==
    /\ ~gl.wrappers[s].alive
    /\ errors = <<>>
    /\ errors' = Append(errors, "Failed to generate " \o kind)
    /\ gl' = [gl EXCEPT !.last = "ConstructFails"]
    /\ UNCHANGED <<simVars, engineVars, probe, gridVars, pc, orbit, cameraPos>>

\* the move constructor: a new wrapper in s from the wrapper in t
MoveConstruct(s, t) ==
    /\ ~gl.wrappers[s].alive
    /\ gl.wrappers[t].alive
    /\ gl' = [gl EXCEPT
                !.wrappers = [@ EXCEPT ![s] = gl.wrappers[t],
                                       ![t] = MovedFrom(gl.wrappers[t])],
                !.last = "MoveConstruct"]
    /\ UNCHANGED <<simVars, engineVars, probe, gridVars, errors, pc, orbit,
                   cameraPos>>

\* operator=(&&): s = std::move(t), s = t being self-assignment
MoveAssign(s, t) ==
    /\ gl.wrappers[s].alive
    /\ gl.wrappers[t].alive
    /\ gl.wrappers[s].kind = gl.wrappers[t].kind
    /\ IF s # t
       THEN \E g \in {Release(gl, gl.wrappers[s])} :
               gl' = [g EXCEPT
                        !.wrappers = [@ EXCEPT ![s] = gl.wrappers[t],
                                               ![t] = MovedFrom(gl.wrappers[t])],
                        !.last = "MoveAssign"]
       ELSE gl' = [gl EXCEPT !.last = "MoveAssignSelf"]
    /\ UNCHANGED <<simVars, engineVars, probe, gridVars, errors, pc, orbit,
                   cameraPos>>

\* the destructor
Destroy(s) ==
    /\ gl.wrappers[s].alive
    /\ \E g \in {Release(gl, gl.wrappers[s])} :
          gl' = [g EXCEPT !.wrappers[s] = NoWrapper, !.last = "Destroy"]
    /\ UNCHANGED <<simVars, engineVars, probe, gridVars, errors, pc, orbit,
                   cameraPos>>

NextWrappers ==
    \/ \E s \in Slots, kind \in WrapperKinds, id \in 1..MaxGlIds :
          Construct(s, kind, id)
    \/ \E s \in Slots, kind \in WrapperKinds : ConstructFails(s, kind)
    \/ \E s \in Slots, t \in Slots : MoveConstruct(s, t)
    \/ \E s \in Slots, t \in Slots : MoveAssign(s, t)
    \/ \E s \in Slots : Destroy(s)

SpecWrappers == Init /\ [][NextWrappers]_vars

(***************************************************************************)
(* Claims                                                                  *)
(***************************************************************************)
Bodies == 1..Len(objs)
IsActive(o) == ~o.Initalizing
Cross(a, b) == <<a[2] * b[3] - a[3] * b[2],
                 a[3] * b[1] - a[1] * b[3],
                 a[1] * b[2] - a[2] * b[1]>>
Dot(a, b) == a[1] * b[1] + a[2] * b[2] + a[3] * b[3]
ReadAt(k) == tick.reads[k]
Reads == 1..Len(tick.reads)
\* the last n elements of s (all of s when it is shorter)
LastN(s, n) == IF Len(s) <= n THEN s ELSE SubSeq(s, Len(s) - n + 1, Len(s))

\* C1: a tick executed while paused changes neither the velocity nor the
\* position of any body, overlapping Active bodies included.
C1_PausedTickChangesNothing ==
    [][(frames' = frames + 1 /\ pause')
         => \A i \in Bodies :
               /\ objs'[i].velocity = objs[i].velocity
               /\ objs'[i].position = objs[i].position]_vars

\* C2: within one tick every force computation reads the position every
\* other body had at the start of the tick (no position already advanced
\* by another body's integration step of the same tick).
C2_ForcesReadTickStartSnapshot ==
    \A k \in Reads :
        /\ ReadAt(k).pos = tick.pre[ReadAt(k).obj].position
        /\ ReadAt(k).pos2 = tick.pre[ReadAt(k).obj2].position

\* C3: for every pair of Active bodies A, B at non-zero distance the
\* accelerations assigned in one tick are exactly opposite in direction
\* and mA * aA = mB * aB.  The acceleration of A points along the
\* displacement A read (direction = d / distance) and mA * aA is
\* G * mA * mB / |d|^2, so the magnitudes agree exactly when both bodies
\* read the same squared distance.
C3_NewtonThirdLaw ==
    \A k \in Reads : \A l \in Reads :
        (ReadAt(k).obj = ReadAt(l).obj2 /\ ReadAt(k).obj2 = ReadAt(l).obj)
        => LET dA == VecSub(ReadAt(k).pos2, ReadAt(k).pos)
               dB == VecSub(ReadAt(l).pos2, ReadAt(l).pos)
           IN /\ Cross(dA, dB) = Zero3
              /\ Dot(dA, dB) < 0
              /\ Norm2(dA) = Norm2(dB)

\* C4: the trail of every body holds at most 30 samples, and it is always
\* the (at most 30) most recently sampled positions, oldest first.
C4_TrailBoundedFifo ==
    \A i \in Bodies :
        /\ Len(objs[i].trailSpheres) <= maxTrailLength
        /\ objs[i].trailSpheres = LastN(sampled[i], maxTrailLength)

C4_Witness ==
    \E i \in Bodies : Len(sampled[i]) > maxTrailLength

C6_ActiveNeverFormingAgain ==
    [][\A i \in Bodies :
          ~objs[i].Initalizing
          => (i <= Len(objs') /\ ~objs'[i].Initalizing)]_vars

C6_Witness ==
    \E i \in Bodies :
        /\ objs[i].Launched /\ ~objs[i].Initalizing
        /\ i < Len(objs)
        /\ frames > 0

C8_FormingBodiesExcluded ==
    LET pre == tick.pre
        alone == PhysicsLoop(SelectSeq(pre, IsActive), tick.paused,
                             tick.speed, 0).objs
        rank(i) == Cardinality({k \in 1..i : IsActive(pre[k])})
    IN \A i \in 1..Len(pre) :
          objs[i].velocity = IF IsActive(pre[i]) THEN alone[rank(i)].velocity
                             ELSE pre[i].velocity

C8_Witness ==
    /\ frames > 0
    /\ ~tick.paused
    /\ \E i \in 1..Len(tick.pre) : \E j \in 1..Len(tick.pre) :
          /\ ~IsActive(tick.pre[i])
          /\ IsActive(tick.pre[j])
          /\ Norm2(VecSub(tick.pre[i].position, tick.pre[j].position)) = 1

\* C9: radius is a function of mass and density: whenever the mass of an
\* object is changed (setMass), the radius it has afterwards is
\* cbrt(3 * mass / density / (4 pi)) / 100000 for its new mass (with the
\* density an object has by default, PhysicsObject having none of its own).
C9_RadiusFollowsMass ==
    [][\A i \in 1..Len(m_objects) :
          (i <= Len(m_objects') /\ m_objects'[i].m_mass # m_objects[i].m_mass)
          => m_objects'[i].m_radius =
                MassRadius(m_objects'[i].m_mass, DefaultDensity)]_vars

\* C10: CheckCollision returns -0.2 exactly when the sum of the radii is
\* greater than the distance between the centres and 1.0 otherwise; two
\* bodies exactly touching get 1.0, two bodies at half the sum of their
\* radii get -0.2.
C10_CollisionFactor ==
    LET reach == probe.this.radius + probe.other.radius
        d2 == Norm2(VecSub(probe.other.position, probe.this.position))
    IN probe.factor # 0
       => /\ probe.factor = IF reach * reach > d2 THEN DampFactor
                            ELSE NoDampFactor
          /\ (reach * reach = d2 => probe.factor = NoDampFactor)
          /\ (reach * reach = 4 * d2 => probe.factor = DampFactor)

C10_Witness ==
    LET reach == probe.this.radius + probe.other.radius
        d2 == Norm2(VecSub(probe.other.position, probe.this.position))
    IN /\ probe.factor = NoDampFactor
       /\ reach * reach = d2

\* C11: a body within rs of a sample point (distance_m <= rs) contributes
\* exactly zero to that sample, and no sample of the returned grid is NaN:
\* every returned y is the one computed from the other bodies alone.
C11_CurvatureClampedInsideRs ==
    \A c \in 1..Len(gridLog) :
        LET call == gridLog[c]
            lines == GridLines(call.size, call.divisions)
            Outside(k) == SelectSeq(call.os,
                             LAMBDA o : Norm2(VecSub(o.position, lines[k])) > 0)
        IN \A k \in 1..Len(lines) :
              /\ ~call.out[k].nan
              /\ call.out[k] =
                    DisplaceVertex(lines[k],
                                   TotalDisplacement(Outside(k), lines[k], 1), 0)

C13_SpeedAlwaysPositive ==
    /\ simulationSpeed > 0
    /\ m_timeScale > 0

\* C14: a frame in which the grow command (right button held) meets an
\* Active last body reports an error, and no frame ever changes the mass of
\* an Active body.
C14_GrowOnActiveIsReported ==
    [][frames' = frames + 1
         => /\ \A i \in Bodies :
                  ~objs[i].Initalizing => objs'[i].mass = objs[i].mass
            /\ (/\ ~objs[Len(objs)].Initalizing
                /\ \E kDown \in BOOLEAN, dt \in DeltaTimes :
                      Frame(kDown, TRUE, dt))
               => errors' # errors]_vars

\* C15: a launch (left button release) that meets an already Active last
\* body reports an error and leaves the flags (Initalizing, Launched) of
\* every body as they were.
C15_LaunchOnActiveIsRefused ==
    [][(/\ ~objs[Len(objs)].Initalizing
        /\ mouseButtonCallback("LEFT", "RELEASE"))
         => /\ errors' # errors
            /\ \A i \in Bodies :
                  /\ objs'[i].Initalizing = objs[i].Initalizing
                  /\ objs'[i].Launched = objs[i].Launched]_vars

\* C16: every body has mass > 0 and density > 0 in every reachable state
\* (creating a body with, or setting a body to, a non-positive mass being
\* refused), in the simulator and in the engine.
C16_MassAndDensityPositive ==
    /\ \A i \in Bodies : objs[i].mass > 0 /\ objs[i].density > 0
    /\ \A i \in 1..Len(m_objects) : m_objects[i].m_mass > 0

\* C17: one frame grows a mass by 1% per second of elapsed time and by no
\* more: for the deltaTime of the frame (in ms), every mass is afterwards
\* either what it was or, to within one unit of the mass grid, what it was
\* times 1 + 0.01 * deltaTime / 1000.
C17_GrowthOnePercentPerSecond ==
    [][frames' = frames + 1
         => \E dt \in DeltaTimes : \A i \in Bodies :
               \/ objs'[i].mass = objs[i].mass
               \/ Abs(objs'[i].mass
                      - (objs[i].mass + MulDiv(objs[i].mass, dt, 100000))) <= 1]_vars

\* C18: a tick neither adds, removes nor reorders bodies: after a frame of
\* the simulator and after an updatePhysics of the engine the body set has
\* the same length and every place holds the body it held before (same
\* density, flags and, for an Active body, mass; same mass, radius and
\* active flag in the engine).
SameBody(a, b) ==
    /\ a.density = b.density
    /\ a.Initalizing = b.Initalizing
    /\ a.Launched = b.Launched
    /\ a.hasTrail = b.hasTrail
    /\ (IsActive(a) => a.mass = b.mass)

SameEngineObject(a, b) ==
    /\ a.m_mass = b.m_mass
    /\ a.m_radius = b.m_radius
    /\ a.m_active = b.m_active

C18_TickKeepsBodySet ==
    [][/\ frames' = frames + 1
          => /\ Len(objs') = Len(objs)
             /\ \A i \in Bodies : SameBody(objs[i], objs'[i])
       /\ m_updateCount' = m_updateCount + 1
          => /\ Len(m_objects') = Len(m_objects)
             /\ \A i \in 1..Len(m_objects) :
                   SameEngineObject(m_objects[i], m_objects'[i])]_vars

C18_Witness ==
    /\ frames > 0
    /\ \E k \in Reads : ReadAt(k).factor = DampFactor

\* C19: the body set and the bodies' state are changed by the create,
\* launch and reposition callbacks only between frames, never while the
\* physics loop is at some body, and the grow command changes a mass only
\* at the head of a frame, before the loop.
C19_CommandsOnlyBetweenTicks ==
    [][/\ (\/ keyEvents' # keyEvents
           \/ Len(objs') # Len(objs)
           \/ \E i \in Bodies : \/ objs'[i].Initalizing # objs[i].Initalizing
                                 \/ objs'[i].Launched # objs[i].Launched)
          => (pc = 0 /\ pc' = 0)
       /\ (\E i \in Bodies : i <= Len(objs') /\ objs'[i].mass # objs[i].mass)
          => pc = 0]_vars

C19_Witness ==
    /\ pc > 1
    /\ keyEvents > 0
    /\ Len(objs) > Len(InitialObjs)
    /\ objs[Len(objs)].Launched

\* C20: two distinct Active bodies at distance exactly 0 contribute zero
\* acceleration to each other and the tick completes without a division
\* by zero: a body whose partners are all at distance 0 keeps its velocity
\* through the tick, and no velocity or position is ever NaN.
C20_CoincidentPairContributesNothing ==
    /\ \A i \in 1..Len(m_objects) : ~m_objects[i].m_nan
    /\ \A i \in 1..Len(tick.pre) :
          (/\ IsActive(tick.pre[i])
           /\ \A k \in Reads :
                 ReadAt(k).obj = i => ReadAt(k).pos2 = ReadAt(k).pos)
          => objs[i].velocity = tick.pre[i].velocity

\* the distance of the lighter body of the orbit from the origin, in whole
\* world units, squared
MoonDistance2 ==
    Norm2([k \in 1..3 |-> TDiv(orbit.objs[1].position[k], MilliScale)])

\* C21: in the Earth-Moon scenario at speed 1.0, unpaused, the lighter
\* body's distance from the origin is within [2000, 6000] world units after
\* each of the first 1000 ticks.
C21_OrbitStaysBounded ==
    /\ 2000 * 2000 <= MoonDistance2
    /\ MoonDistance2 <= 6000 * 6000

C21_Witness ==
    /\ orbit.ticks = 1000
    /\ MoonDistance2 < 3500 * 3500
    /\ orbit.objs[2].position # Zero3

\* C22: the Space key pauses or unpauses the simulation: after a frame in
\* which Space is held (or not), physics is paused as Space commands it,
\* be it as a level (paused while held) or as a toggle (flipped when held).
C22_SpacePausesAndUnpauses ==
    [][\A spaceDown \in BOOLEAN :
          (\E shiftDown \in BOOLEAN, kDown \in BOOLEAN, rightDown \in BOOLEAN,
              dt \in DeltaTimes :
              FrameWithKeys(spaceDown, shiftDown, kDown, rightDown, dt))
          => \/ pause' = spaceDown
             \/ pause' = (pause # spaceDown)]_vars

\* the positions the pair (i, j) has when the loop reaches body i: the
\* bodies before i have been moved, i and the bodies after it have not
PosAtUpdate(i, j) ==
    IF j < i THEN objs[j].position ELSE tick.pre[j].position

\* C23: whenever two distinct Active bodies A and B satisfy radiusA +
\* radiusB > distance(A, B) at the time of A's update, the distance being
\* exactly 0 included, A's velocity is scaled by -0.2 in that tick: the
\* tick holds a collision read of B by A with the damping factor.
C23_OverlapAlwaysDamps ==
    \A i \in 1..Len(tick.pre) : \A j \in 1..Len(tick.pre) :
        LET reach == tick.pre[i].radius + tick.pre[j].radius
            d2 == Norm2(VecSub(PosAtUpdate(i, j), PosAtUpdate(i, i)))
        IN (/\ frames > 0
            /\ i # j
            /\ IsActive(tick.pre[i]) /\ IsActive(tick.pre[j])
            /\ reach * reach > d2)
           => \E k \in Reads :
                 /\ ReadAt(k).obj = i /\ ReadAt(k).obj2 = j
                 /\ ReadAt(k).factor = DampFactor

\* C24: within one tick nothing is integrated before the accelerations and
\* collision factors of all bodies are computed: every read of the tick
\* sees both bodies where they were when the tick began, and every
\* collision factor is the one CheckCollision gives on those tick-start
\* positions and radii, whichever of the two bodies the loop reached first.
C24_CollisionReadsTickStartSnapshot ==
    \A k \in Reads :
        LET a == tick.pre[ReadAt(k).obj]
            b == tick.pre[ReadAt(k).obj2]
        IN /\ ReadAt(k).pos2 = b.position
           /\ ReadAt(k).factor = CheckCollision(a, b)

\* the velocity a body has after the reads k.. of the tick made for it:
\* each read accelerates it (when the tick is not paused) and then scales
\* it by the factor of the read
RECURSIVE VelocityFrom(_, _, _)
VelocityFrom(v, i, k) ==
    IF k > Len(tick.reads) THEN v
    ELSE IF ReadAt(k).obj # i THEN VelocityFrom(v, i, k + 1)
    ELSE LET pushed == IF tick.paused THEN v
                       ELSE accelerate([velocity |-> v], ReadAt(k).acc,
                                       tick.speed).velocity
         IN VelocityFrom(ScaleVelocity(pushed, ReadAt(k).factor), i, k + 1)

\* the ordered pairs the collision check is due for: distinct Active
\* bodies at non-zero distance when the loop reaches the first of them
PairsDue ==
    {p \in (1..Len(tick.pre)) \X (1..Len(tick.pre)) :
        /\ p[1] # p[2]
        /\ IsActive(tick.pre[p[1]]) /\ IsActive(tick.pre[p[2]])
        /\ PosAtUpdate(p[1], p[2]) # PosAtUpdate(p[1], p[1])}

\* C25: in one tick the collision check is evaluated exactly once for each
\* ordered pair (A, B) of distinct Active bodies at non-zero distance, in
\* the iteration order of the body set (A ascending, then B ascending),
\* and A's velocity is scaled once per check, so by the damping factor
\* once per overlapping body.
C25_OneCheckPerOrderedPair ==
    frames > 0
    => /\ {<<ReadAt(k).obj, ReadAt(k).obj2>> : k \in Reads} = PairsDue
       /\ \A k \in Reads : \A l \in Reads :
             k < l => \/ ReadAt(k).obj < ReadAt(l).obj
                      \/ /\ ReadAt(k).obj = ReadAt(l).obj
                         /\ ReadAt(k).obj2 < ReadAt(l).obj2
       /\ \A i \in 1..Len(tick.pre) :
             objs[i].velocity = VelocityFrom(tick.pre[i].velocity, i, 1)

C25_Witness ==
    /\ frames > 0
    /\ \E i \in 1..Len(tick.pre) :
          /\ Cardinality({k \in Reads : ReadAt(k).obj = i
                                        /\ ReadAt(k).factor = DampFactor}) >= 2
          /\ objs[i].velocity # Zero3

\* velocity * simulationSpeed / 94, as a step on the position grid
PosStep(v, speed) ==
    [k \in 1..3 |-> TDiv(TDiv(PosScale * v[k], PosDivisor) * speed, SpeedScale)]

\* v after the reads k.. that body i made in reads: += acc / 96 * speed for
\* every contributing body, each followed by its collision factor
RECURSIVE VelocityOver(_, _, _, _, _)
VelocityOver(reads, v, i, speed, k) ==
    IF k > Len(reads) THEN v
    ELSE IF reads[k].obj # i THEN VelocityOver(reads, v, i, speed, k + 1)
    ELSE VelocityOver(reads,
                      ScaleVelocity([c \in 1..3 |->
                                       v[c] + TDiv(TDiv(reads[k].acc[c], AccelDivisor)
                                                   * speed, SpeedScale)],
                                    reads[k].factor),
                      i, speed, k + 1)

\* C26: in an unpaused tick a body's velocity is first advanced by
\* acceleration * simulationSpeed / 96 for every contributing body, and its
\* position is then advanced by that already-updated velocity *
\* simulationSpeed / 94 (semi-implicit Euler).
C26_SemiImplicitEuler ==
    [][(frames' = frames + 1 /\ ~pause')
         => \A i \in Bodies :
               /\ objs'[i].velocity =
                     VelocityOver(tick'.reads, objs[i].velocity, i,
                                  simulationSpeed, 1)
               /\ objs'[i].position =
                     VecAdd(objs[i].position,
                            PosStep(objs'[i].velocity, simulationSpeed))]_vars

C26_Witness ==
    /\ frames > 0
    /\ ~tick.paused
    /\ \E i \in 1..Len(tick.pre) :
          /\ PosStep(objs[i].velocity, tick.speed)
                # PosStep(tick.pre[i].velocity, tick.speed)
          /\ objs[i].position
                = VecAdd(tick.pre[i].position,
                         PosStep(objs[i].velocity, tick.speed))

RECURSIVE NetForce(_, _, _)
NetForce(os, i, j) ==
    IF j > Len(os) THEN Zero3
    ELSE IF j = i \/ ~os[j].m_active THEN NetForce(os, i, j + 1)
    ELSE VecAdd(calculateGravitationalForce(os[i], os[j]).v,
                NetForce(os, i, j + 1))

\* C28: in PhysicsEngine::updatePhysics the acceleration that integrates
\* an object is the sum of the gravitational forces from every other
\* active object divided by the object's mass: the velocity grows by that
\* acceleration times the scaled deltaTime (to within the rounding of one
\* division per pair).
C28_NetForceFromAllPairs ==
    [][m_updateCount' = m_updateCount + 1
         => \E deltaTime \in EngineDeltaTimes :
            \A i \in 1..Len(m_objects) :
               (/\ m_objects[i].m_active
                /\ m_objects[i].m_mass > 0
                /\ \A j \in 1..Len(m_objects) :
                      ~m_objects[j].m_nan
                      /\ (j # i => ~calculateGravitationalForce(
                                       m_objects[i], m_objects[j]).nan))
               => \A k \in 1..3 :
                     Abs(m_objects'[i].m_velocity[k] - m_objects[i].m_velocity[k]
                         - TDiv(NetForce(m_objects, i, 1)[k], m_objects[i].m_mass)
                           * deltaTime * m_timeScale)
                     <= Len(m_objects) * Abs(deltaTime * m_timeScale)]_vars

\* C29: under any sequence of left-button press and release events and
\* ticks at most one body is Forming and it is the last body of the body
\* set, the one the grow, reposition and launch commands reach.
C29_OnlyLastBodyForming ==
    \A i \in Bodies : objs[i].Initalizing => i = Len(objs)

\* the OpenGL names the program's wrappers hold
Held(s) == <<gl.wrappers[s].kind, gl.wrappers[s].m_id>>
Holding == {s \in Slots : gl.wrappers[s].alive /\ gl.wrappers[s].m_valid}

\* C30: under any sequence of construction, move construction, move
\* assignment (self-assignment included) and destruction every generated
\* OpenGL name is deleted exactly once: no delete hits a name that is not
\* live, every live name is held by exactly one valid wrapper (so a name
\* nobody holds has been deleted, the previous name of a move-assigned
\* target included), and a wrapper that is not valid, as after being moved
\* from, has id 0 and a valid one has not.
C30_EveryIdDeletedExactlyOnce ==
    /\ gl.badDeletes = 0
    /\ gl.live = {Held(s) : s \in Holding}
    /\ \A s \in Holding : \A t \in Holding : Held(s) = Held(t) => s = t
    /\ gl.gens = gl.deletes + Cardinality(gl.live)
    /\ \A s \in Slots : gl.wrappers[s].m_valid <=> gl.wrappers[s].m_id # 0

C30_Witness ==
    /\ gl.last = "MoveAssignSelf"
    /\ gl.deletes >= 2
    /\ Holding # {}
    /\ \E s \in Slots : gl.wrappers[s].alive /\ ~gl.wrappers[s].m_valid

====
